---- MODULE Spec2Model ----
(***************************************************************************)
(* A model of superwstest (src/src/superwstest.js): the chainable command  *)
(* pipeline built by wsRequest/thenDo over one ws WebSocket, the queues    *)
(* that turn transport events into promises, and the client registry.      *)
(*                                                                         *)
(* One action is one macrotask of the event loop (a transport event, a     *)
(* timer, a send callback, a fluent call of the test) together with the    *)
(* promise reactions it triggers up to the settlement of the step in       *)
(* flight; the start of the next step of a chain is an action of its own.  *)
(***************************************************************************)
EXTENDS Integers, Sequences, FiniteSets, TLC

\* ---------------------------------------------------------------- bounds
MaxSteps == 2      \* fluent calls made on one chain
MaxMsgs == 2       \* 'message' events one connection receives
MaxErrors == 1     \* 'error' events one connection emits after 'open'
MaxCloseAlls == 2  \* calls of request.closeAll
MaxListens == 2    \* calls of server.listen
TickMs == 10       \* the milliseconds that pass in one step of the clock

\* ---------------------------------------------------------------- values
Conns == {"A", "B", "C"}

None == <<>>
Some(v) == <<v>>
IsSome(o) == o # <<>>
Val(o) == o[1]

CloseCodes == {1000, 4321}
CloseReasons == {"", "Oops"}
TransportErrors == {"Invalid frame"}
SeveralErrors == TransportErrors \cup {"Max payload size exceeded"}
NotOpenMessage == "WebSocket is not open"
SendFailures == {NotOpenMessage, "EPIPE"}
HandshakeErrors == {"Unexpected server response: 404"}
UnexpectedResponse == "Unexpected server response: "
ShouldFailMessage == "Expected connection failure, but succeeded"

\* the server under test and the sockets of its peers
Peers == {"p", "q"}
ShutdownDelays == {0, 10, 30}
PollMs == 20
MustListenMessage == "Server must be listening"
ServerClosedMessage == "Server was closed"

\* a payload as the 'message' event delivers it: a string, or a Buffer (typeof 'object')
Text(data) == [type |-> "string", data |-> data]
Binary(data) == [type |-> "object", data |-> data]
Payloads == {Text("hello"), Text("echo foo"), Binary("6f")}

Err(kind, code, message) == [kind |-> kind, code |-> code, message |-> message]
NoErr == Err("none", 0, "")

\* ------------------------------------------------- the steps a test chains
\* check: the value an expectation expects, or the message a send sends
Step(op, fn, check, timeout, code, message) ==
  [op |-> op, fn |-> fn, check |-> check, timeout |-> timeout,
   code |-> code, message |-> message]

SendOps == {"send", "sendText", "sendJson", "sendBinary"}
SendSteps == {Step(op, "", None, None, None, None) : op \in SendOps}
WaitSteps == {Step("wait", "", None, Some(1), None, None)}
ExecSteps == {Step("exec", fn, None, None, None, None) : fn \in {"returns", "throws"}}
ExpectTextSteps ==
  {Step("expectText", "msgText", ck, t, None, None) :
     ck \in {None, Some("hello")}, t \in {None, Some(0), Some(1)}}
ExpectBinarySteps ==
  {Step("expectBinary", "msgBinary", ck, None, None, None) : ck \in {None, Some("6f")}}
CloseSteps == {Step("close", "", None, None, None, None)}
ExpectClosedSteps ==
  {Step("expectClosed", "", None, None, code, message) :
     code \in {None, Some(1000)}, message \in {None, Some("Oops")}}
ExpectUpgradeSteps ==
  {Step("expectUpgrade", fn, None, None, None, None) : fn \in {"returns", "false"}}

\* expectConnectionError(expectedCode): code holds a number, message a string,
\* neither the default null
ExpectConnectionError(code, message) ==
  Step("expectConnectionError", "", None, None, code, message)
ExpectConnectionErrorSteps ==
  {ExpectConnectionError(None, None)}
    \cup {ExpectConnectionError(Some(n), None) : n \in {0, 404, 500}}
    \cup {ExpectConnectionError(None, Some(m)) : m \in {"Unexpected server response: 404"}}

\* ---------------------------------------------------------------- state
VARIABLES
  ws,            \* ws[c]: the WebSocket object of connection c and the fields wsRequest adds
  ready,         \* ready[c]: the promise wsRequest creates (resolved on 'open', rejected on 'error')
  chain,         \* chain[c]: one promise per step appended by thenDo, in call order
  pending,       \* pending[c]: what the operation of the step in flight is suspended on
  elapsed,       \* elapsed[c]: milliseconds since the step in flight suspended
  clientSockets, \* the registry of open client connections
  closeAllCalls  \* the calls of request.closeAll so far: what each returned, and how
                 \* many connections wsRequest had made by then

VARIABLES
  server,        \* the server handle: listening, its serverTestConfigs entry, serverSockets
  peers,         \* peers[p]: the server-side socket of peer p
  loops,         \* the polling loops of performShutdown that have not finished
  lastClose,     \* the latest call of the replaced server.close: whether it was given
                 \* a callback, and what it did, in order
  thrown         \* the message of the latest error request() or obj.ws() threw

vars == <<ws, ready, chain, pending, elapsed, clientSockets, closeAllCalls,
          server, peers, loops, lastClose, thrown>>

\* the state of the connections and their registry
connVars == <<ws, ready, chain, pending, elapsed, clientSockets, closeAllCalls>>

\* the state of the server and of what request() keeps for it
serverVars == <<server, peers, loops, lastClose, thrown>>

\* the state that no fluent call and no event of a connection touches
outside == <<closeAllCalls, serverVars>>

NewSocket ==
  [readyState |-> "NONE",
   messages |-> <<>>,                 \* ws.messages: the buffered items
   pops |-> <<>>,                     \* ws.messages: the pop() calls not yet satisfied (step numbers)
   closed |-> [settled |-> FALSE, code |-> 0, message |-> ""],
   firstError |-> [settled |-> FALSE, err |-> NoErr],
   errors |-> 0,                      \* 'error' events after 'open'
   upgrade |-> FALSE,
   arrived |-> 0,                     \* 'message' events so far
   delivered |-> <<>>,                \* which pop() got which message, in order
   closeCalls |-> 0,                  \* calls of ws.close
   reported |-> <<>>]                 \* the failures the callback of ws.send reported, per step

Init ==
  /\ ws = [c \in Conns |-> NewSocket]
  /\ ready = [c \in Conns |-> [state |-> "none", err |-> NoErr]]
  /\ chain = [c \in Conns |-> <<>>]
  /\ pending = [c \in Conns |-> "none"]
  /\ elapsed = [c \in Conns |-> 0]
  /\ clientSockets = {}
  /\ closeAllCalls = <<>>
  /\ server = [listening |-> FALSE,
               listens |-> 0,            \* calls of server.listen so far
               testConfig |-> None,      \* serverTestConfigs.get(server): its shutdownDelay
               serverSockets |-> {},
               obj |-> FALSE,            \* request(server) has returned an object
               passed |-> {}]            \* the delays request() was given since the last shutdown
  /\ peers = [p \in Peers |-> [state |-> "none", ended |-> FALSE]]
  /\ loops = {}
  /\ lastClose = [turn |-> 0, callback |-> FALSE, did |-> <<>>]
  /\ thrown = ""

\* ------------------------------------------------------------- the socket
isOpen(w) == w.readyState = "CONNECTING" \/ w.readyState = "OPEN"

\* a close that the transport ignores
wsCloseIgnored(w) == w

\* ws.close as wsRequest replaces it: the transport's close, which starts the
\* closing handshake of a CONNECTING or OPEN socket and is a no-op otherwise;
\* the removal from clientSockets is CloseCalled below.
wsClose(w) ==
  [w EXCEPT !.readyState = IF isOpen(w) THEN "CLOSING" ELSE @,
            !.closeCalls = @ + 1]

\* closeAndRethrow without lines 178-180
rethrowOnly(w) == w

closeAndRethrow(w) == IF isOpen(w) THEN wsClose(w) ELSE w

\* a ws.close that leaves the registry alone
CloseUnseen(w0, w1) == FALSE

CloseCalled(w0, w1) == w1.closeCalls # w0.closeCalls

\* ------------------------------------------------------- payload helpers
msgText(m) ==
  IF m.type # "string"
    THEN [ok |-> FALSE, value |-> "", err |-> Err("type", 0, "Expected text message, got object")]
    ELSE [ok |-> TRUE, value |-> m.data, err |-> NoErr]

msgBinary(m) ==
  IF m.type = "string"
    THEN [ok |-> FALSE, value |-> "", err |-> Err("type", 0, "Expected binary message, got text")]
    ELSE [ok |-> TRUE, value |-> m.data, err |-> NoErr]

conversion(fn, m) == IF fn = "msgText" THEN msgText(m) ELSE msgBinary(m)

\* ------------------------------------------- outcomes of a step's operation
\* when = "now": the value fn returns is no promise or an already settled one;
\* "soon": it settles in the promise reactions of the same macrotask;
\* "later": it needs an event (out = "suspend", on = what it waits for).
Done(w, when) == [w |-> w, out |-> "ok", err |-> NoErr, when |-> when, on |-> "none"]
Thrown(w, e, when) == [w |-> w, out |-> "fail", err |-> e, when |-> when, on |-> "none"]
Suspended(w, on) == [w |-> w, out |-> "suspend", err |-> NoErr, when |-> "later", on |-> on]

\* expectMessage after the race of lines 91-98 was won by a message
checkMessage(w, m, s) ==
  LET conv == conversion(s.fn, m) IN
  IF ~conv.ok THEN Thrown(w, conv.err, "soon")
  ELSE IF ~IsSome(s.check) THEN Done(w, "soon")
  ELSE IF conv.value # Val(s.check) THEN Thrown(w, Err("mismatch", 0, conv.value), "soon")
  ELSE Done(w, "soon")

\* the error of line 94 without the code and reason of the close event
closedWhileWaitingNoCode(w) == Err("closedWhileWaiting", 0, "")

closedWhileWaiting(w) == Err("closedWhileWaiting", w.closed.code, w.closed.message)
timedOut(s) == Err("timeout", Val(s.timeout), "nothing arrived")

\* timeout >= 0 in place of timeout > 0
TimeoutArmedAtZero(s) == IsSome(s.timeout) /\ Val(s.timeout) >= 0

TimeoutArmed(s) == IsSome(s.timeout) /\ Val(s.timeout) > 0

\* takes the oldest message but leaves it in the queue
expectMessagePeek(w, k, s) ==
  IF Len(w.messages) > 0
    THEN LET m == Head(w.messages)
             w1 == [w EXCEPT !.delivered = Append(@, [step |-> k, seq |-> m.seq])]
         IN checkMessage(w1, m, s)
    ELSE LET w1 == [w EXCEPT !.pops = Append(@, k)] IN
         IF w.closed.settled THEN Thrown(w1, Err("closedWhileWaiting", w.closed.code, w.closed.message), "soon")
         ELSE Suspended(w1, "pop")

\* a race that ws.closed wins against a message already in the queue
expectMessageClosedFirst(w, k, s) ==
  IF w.closed.settled
    THEN Thrown([w EXCEPT !.pops = Append(@, k)], closedWhileWaiting(w), "soon")
  ELSE IF Len(w.messages) > 0
    THEN LET m == Head(w.messages)
             w1 == [w EXCEPT !.messages = Tail(@),
                             !.delivered = Append(@, [step |-> k, seq |-> m.seq])]
         IN checkMessage(w1, m, s)
    ELSE Suspended([w EXCEPT !.pops = Append(@, k)], "pop")

expectMessage(w, k, s) ==
  IF Len(w.messages) > 0
    THEN LET m == Head(w.messages)
             w1 == [w EXCEPT !.messages = Tail(@),
                             !.delivered = Append(@, [step |-> k, seq |-> m.seq])]
         IN checkMessage(w1, m, s)
    ELSE LET w1 == [w EXCEPT !.pops = Append(@, k)] IN
         IF w.closed.settled THEN Thrown(w1, closedWhileWaiting(w), "soon")
         ELSE Suspended(w1, "pop")

\* expectClosed without lines 140-142
checkClosedCodeOnly(w, s) ==
  IF IsSome(s.code) /\ w.closed.code # Val(s.code)
    THEN Thrown(w, Err("closeCode", w.closed.code, w.closed.message), "soon")
  ELSE Done(w, "soon")

checkClosed(w, s) ==
  IF IsSome(s.code) /\ w.closed.code # Val(s.code)
    THEN Thrown(w, Err("closeCode", w.closed.code, w.closed.message), "soon")
  ELSE IF IsSome(s.message) /\ w.closed.message # Val(s.message)
    THEN Thrown(w, Err("closeMessage", w.closed.code, w.closed.message), "soon")
  ELSE Done(w, "soon")

\* an expectClosed that pops the closed queue itself: the item is gone after it
expectClosedPopping(w, s) ==
  IF w.closed.settled THEN checkClosed([w EXCEPT !.closed.settled = FALSE], s)
  ELSE Suspended(w, "closed")

expectClosed(w, s) ==
  IF w.closed.settled THEN checkClosed(w, s) ELSE Suspended(w, "closed")

checkUpgrade(w, s) ==
  IF s.fn = "false" THEN Thrown(w, Err("upgrade", 0, ""), "soon") ELSE Done(w, "soon")

expectUpgrade(w, s) ==
  IF w.upgrade THEN checkUpgrade(w, s) ELSE Suspended(w, "upgrade")

\* ws.send hands the message to the transport, which answers through the
\* callback: a socket that is not OPEN refuses it with "WebSocket is not open".
sendWithError(w) ==
  Suspended(w, IF w.readyState = "OPEN" THEN "sendCallback" ELSE "sendRefused")

\* a catch handler that rethrows the error of the callback
sendFailedRaw(w, message) == Thrown(w, Err("send", 0, message), "soon")

cannotSend(w) == Err("cannotSend", w.closed.code, w.closed.message)

\* the catch handler of sendWithError, given the error of the callback
sendFailed(w, message) ==
  IF message = NotOpenMessage
    THEN IF w.closed.settled THEN Thrown(w, cannotSend(w), "soon")
         ELSE Suspended(w, "closed")
    ELSE Done(w, "soon")

exec(w, s) ==
  IF s.fn = "throws" THEN Thrown(w, Err("exec", 0, "thrown"), "now")
  ELSE Done(w, "now")

\* wsMethods[s.op](ws, ...args), run up to its first suspension
wsMethods(w, k, s) ==
  CASE s.op \in SendOps -> sendWithError(w)
    [] s.op = "wait" -> Suspended(w, "timer")
    [] s.op = "exec" -> exec(w, s)
    [] s.op \in {"expectText", "expectBinary"} -> expectMessage(w, k, s)
    [] s.op = "close" -> Done(wsClose(w), "now")
    [] s.op = "expectClosed" -> expectClosed(w, s)
    [] s.op = "expectUpgrade" -> expectUpgrade(w, s)

\* fn(ws, ...args) alone, without the race
raceAlone(r) == r

\* Promise.race([fn(ws, ...args), ws.firstError]) at the start of a step
raceFirstError(r) ==
  IF r.when # "now" /\ r.w.firstError.settled
    THEN Thrown(r.w, r.w.firstError.err, "soon")
    ELSE r

\* ------------------------------------------------- expectConnectionError
\* what error.message is; the errors the library itself makes never read
\* like a handshake failure, and are told apart by their kind here
errorMessage(e) ==
  IF e.kind \in {"handshake", "transport"} THEN e.message ELSE e.kind

\* !expectedCode
falsy(s) ==
  /\ IsSome(s.code) => Val(s.code) = 0
  /\ IsSome(s.message) => Val(s.message) = ""

\* checkConnectionError without lines 162-169
checkConnectionErrorAny(error, s) == [ok |-> TRUE, err |-> NoErr]

checkConnectionError(error, s) ==
  IF falsy(s) THEN [ok |-> TRUE, err |-> NoErr]
  ELSE LET expected == IF IsSome(s.code) THEN UnexpectedResponse \o ToString(Val(s.code))
                       ELSE Val(s.message)
           actual == errorMessage(error)
       IN IF actual # expected
            THEN [ok |-> FALSE, err |-> Err("connectionError", 0, actual)]
            ELSE [ok |-> TRUE, err |-> NoErr]

\* ---------------------------------------------------------------- the chain
\* started: fn(ws, ...args) of the step was called
Promise(s, state, err) == [step |-> s, state |-> state, err |-> err, started |-> FALSE]

Running(c) == {k \in DOMAIN chain[c] : chain[c][k].state = "running"}
InFlight(c) == CHOOSE k \in Running(c) : TRUE

\* a rejection that stays with the step that failed
RejectOnly(ch, k, e) == [ch EXCEPT ![k].state = "rejected", ![k].err = e]

\* The rejection e of promise k - 1 reaches promise k: a then(onFulfilled)
\* passes it on to promise k + 1, the then(onFulfilled, onRejected) of
\* expectConnectionError hands it to checkConnectionError.
RECURSIVE onRejected(_, _, _)
onRejected(ch, k, e) ==
  IF k > Len(ch) THEN ch
  ELSE IF ch[k].step.op = "expectConnectionError"
    THEN LET r == checkConnectionError(e, ch[k].step) IN
         IF r.ok THEN [ch EXCEPT ![k].state = "fulfilled", ![k].started = TRUE]
         ELSE onRejected([ch EXCEPT ![k].state = "rejected", ![k].err = r.err,
                                    ![k].started = TRUE], k + 1, r.err)
    ELSE onRejected([ch EXCEPT ![k].state = "rejected", ![k].err = e], k + 1, e)

\* promise k rejects with e, and the rejection reaches every promise after it
RejectFrom(ch, k, e) ==
  onRejected([ch EXCEPT ![k].state = "rejected", ![k].err = e], k + 1, e)

\* the promise the chain variable holds before thenDo replaces it
Last(c) ==
  IF chain[c] = <<>> THEN ready[c]
  ELSE [state |-> chain[c][Len(chain[c])].state, err |-> chain[c][Len(chain[c])].err]

\* onFulfilled of step k run as soon as the step before it has been started
CanStartEarly(c, k) ==
  /\ chain[c][k].state = "queued"
  /\ IF k = 1 THEN ready[c].state = "resolved" ELSE chain[c][k - 1].started

\* chain.then(onFulfilled): onFulfilled of step k runs once the promise before it is fulfilled
CanStart(c, k) ==
  /\ chain[c][k].state = "queued"
  /\ IF k = 1 THEN ready[c].state = "resolved" ELSE chain[c][k - 1].state = "fulfilled"

\* a failure that closes every registered socket, as request.closeAll does,
\* in place of closeAndRethrow(ws)
SettleClosingAll(c, k, r, closeEvent) ==
  LET w1 == IF r.out = "fail" THEN closeAndRethrow(r.w) ELSE r.w IN
  /\ ws' = [d \in Conns |-> IF d = c THEN w1
                            ELSE IF r.out = "fail" /\ d \in clientSockets THEN wsClose(ws[d])
                            ELSE ws[d]]
  /\ chain' = [chain EXCEPT ![c] =
                 CASE r.out = "ok" -> [@ EXCEPT ![k].state = "fulfilled", ![k].started = TRUE]
                   [] r.out = "fail" -> RejectFrom([@ EXCEPT ![k].started = TRUE], k, r.err)
                   [] r.out = "suspend" -> [@ EXCEPT ![k].state = "running", ![k].started = TRUE]]
  /\ pending' = [pending EXCEPT ![c] = r.on]
  /\ elapsed' = [elapsed EXCEPT ![c] = IF chain[c][k].started THEN @ ELSE 0]
  /\ clientSockets' = IF r.out = "fail" THEN {}
                      ELSE IF closeEvent \/ CloseCalled(ws[c], w1)
                        THEN clientSockets \ {c} ELSE clientSockets
  /\ UNCHANGED ready
  /\ UNCHANGED outside

\* The outcome r of the race of step k of c, through .catch(closeAndRethrow(ws)).then(() => ws);
\* closeEvent: the action is the 'close' event, which itself removes c from the registry.
Settle(c, k, r, closeEvent) ==
  LET w1 == IF r.out = "fail" THEN closeAndRethrow(r.w) ELSE r.w IN
  /\ ws' = [ws EXCEPT ![c] = w1]
  /\ chain' = [chain EXCEPT ![c] =
                 CASE r.out = "ok" -> [@ EXCEPT ![k].state = "fulfilled", ![k].started = TRUE]
                   [] r.out = "fail" -> RejectFrom([@ EXCEPT ![k].started = TRUE], k, r.err)
                   [] r.out = "suspend" -> [@ EXCEPT ![k].state = "running", ![k].started = TRUE]]
  /\ pending' = [pending EXCEPT ![c] = r.on]
  /\ elapsed' = [elapsed EXCEPT ![c] = IF chain[c][k].started THEN @ ELSE 0]
  /\ clientSockets' = IF closeEvent \/ CloseCalled(ws[c], w1)
                        THEN clientSockets \ {c} ELSE clientSockets
  /\ UNCHANGED ready
  /\ UNCHANGED outside

\* a rejection of promise k of c raised outside the catch of line 237
Uncaught(c, k, w1, e) ==
  /\ ws' = [ws EXCEPT ![c] = w1]
  /\ chain' = [chain EXCEPT ![c] = RejectFrom([@ EXCEPT ![k].started = TRUE], k, e)]
  /\ clientSockets' = IF CloseCalled(ws[c], w1) THEN clientSockets \ {c} ELSE clientSockets
  /\ UNCHANGED <<ready, pending, elapsed>>
  /\ UNCHANGED outside

\* an event that settles no step
Quiet(c, w1, closeEvent) ==
  /\ ws' = [ws EXCEPT ![c] = w1]
  /\ clientSockets' = IF closeEvent THEN clientSockets \ {c} ELSE clientSockets
  /\ UNCHANGED <<ready, chain, pending, elapsed>>
  /\ UNCHANGED outside

\* ------------------------------------------------------------ the test's calls
wsRequest(c) ==
  /\ ws[c].readyState = "NONE"
  /\ ws' = [ws EXCEPT ![c].readyState = "CONNECTING"]
  /\ ready' = [ready EXCEPT ![c].state = "pending"]
  /\ clientSockets' = clientSockets \cup {c}
  /\ UNCHANGED <<chain, pending, elapsed>>
  /\ UNCHANGED outside

\* The promises the library has handed out for c: 0 is the one wsRequest
\* returned, o > 0 the one the o-th fluent call returned.
Returned(c) == 0..Len(chain[c])

\* wrapPromise was applied to it (lines 240, 257; not line 254)
hasMethods(c, o) == IF o = 0 THEN TRUE ELSE chain[c][o].step.op # "expectConnectionError"

\* Line 247 gives the property to the promise wsRequest returns; lines 239
\* and 253 delete it from the promise just made, which never had it.
hasExpectConnectionError(c, o) == o = 0

thenDo(c, s) ==
  /\ ws[c].readyState # "NONE"
  /\ \E o \in Returned(c) : hasMethods(c, o)
  /\ chain' = [chain EXCEPT ![c] =
                 Append(@, IF Last(c).state = "rejected"
                             THEN Promise(s, "rejected", Last(c).err)
                             ELSE Promise(s, "queued", NoErr))]
  /\ UNCHANGED <<ws, ready, pending, elapsed, clientSockets>>
  /\ UNCHANGED outside

\* o.expectConnectionError(expectedCode) on a promise o that has the property
expectConnectionError(c, s) ==
  /\ ws[c].readyState # "NONE"
  /\ \E o \in Returned(c) : hasExpectConnectionError(c, o)
  /\ chain' = [chain EXCEPT ![c] =
                 LET ch == Append(@, Promise(s, "queued", NoErr)) IN
                 IF Last(c).state = "rejected" THEN onRejected(ch, Len(ch), Last(c).err) ELSE ch]
  /\ UNCHANGED <<ws, ready, pending, elapsed, clientSockets>>
  /\ UNCHANGED outside

\* the value promise k - 1 was fulfilled with is undefined, not ws
NoSocket(c, k) == k > 1 /\ chain[c][k - 1].step.op = "expectConnectionError"

\* onFulfilled of promise k: reportConnectionShouldFail, or the function of line 234
StartStep(c) ==
  \E k \in DOMAIN chain[c] :
    /\ CanStart(c, k)
    /\ IF NoSocket(c, k)
         THEN Uncaught(c, k, ws[c], Err("TypeError", 0, ""))
       ELSE IF chain[c][k].step.op = "expectConnectionError"
         THEN Uncaught(c, k, wsClose(ws[c]), Err("shouldFail", 0, ShouldFailMessage))
       ELSE Settle(c, k, raceFirstError(wsMethods(ws[c], k, chain[c][k].step)), FALSE)

\* the connections wsRequest has made
Made == {c \in Conns : ws[c].readyState # "NONE"}

\* what request.closeAll finds: the registered sockets that are still open
remainingUnfiltered == clientSockets

remaining == {c \in clientSockets : isOpen(ws[c])}

closeAll ==
  /\ Len(closeAllCalls) < MaxCloseAlls
  /\ clientSockets' = {}
  /\ ws' = [c \in Conns |-> IF c \in remaining THEN wsClose(ws[c]) ELSE ws[c]]
  /\ closeAllCalls' = Append(closeAllCalls, [returned |-> Cardinality(remaining),
                                             made |-> Cardinality(Made)])
  /\ UNCHANGED <<ready, chain, pending, elapsed, serverVars>>

\* ------------------------------------------------------- transport events
OnUpgrade(c) ==
  /\ ws[c].readyState = "CONNECTING" /\ ~ws[c].upgrade
  /\ ws' = [ws EXCEPT ![c].upgrade = TRUE]
  /\ UNCHANGED <<ready, chain, pending, elapsed, clientSockets>>
  /\ UNCHANGED outside

OnOpen(c) ==
  /\ ws[c].readyState = "CONNECTING" /\ ws[c].upgrade
  /\ ready[c].state = "pending"
  /\ ws' = [ws EXCEPT ![c].readyState = "OPEN"]
  /\ ready' = [ready EXCEPT ![c].state = "resolved"]
  /\ UNCHANGED <<chain, pending, elapsed, clientSockets>>
  /\ UNCHANGED outside

\* a socket whose listener for 'error' is errors.push from the start
failedHandshakePushed(w, e) ==
  [w EXCEPT !.readyState = "CLOSING", !.firstError = [settled |-> TRUE, err |-> e]]

\* the socket after an 'error' before 'open': the transport gives up the
\* handshake, and the only listener is reject
failedHandshake(w, e) == [w EXCEPT !.readyState = "CLOSING"]

\* 'error' before 'open': the listener is reject
OnHandshakeError(c, message) ==
  /\ ws[c].readyState \in {"CONNECTING", "CLOSING"}
  /\ ready[c].state = "pending"
  /\ ws' = [ws EXCEPT ![c] = failedHandshake(@, Err("handshake", 0, message))]
  /\ ready' = [ready EXCEPT ![c] = [state |-> "rejected", err |-> Err("handshake", 0, message)]]
  /\ chain' = [chain EXCEPT ![c] = onRejected(@, 1, Err("handshake", 0, message))]
  /\ UNCHANGED <<pending, elapsed, clientSockets>>
  /\ UNCHANGED outside

\* a race without ws.firstError
NeverInterrupts(c) == FALSE

\* ws.firstError settles while the race of a step of c is undecided
Interrupts(c) == Running(c) # {} /\ ~ws[c].firstError.settled

\* 'error' after 'open': the listener is errors.push; the transport may have
\* begun to close the socket (closing = TRUE) when it emits the event
OnError(c, message, closing) ==
  /\ ready[c].state = "resolved"
  /\ ws[c].readyState \in {"OPEN", "CLOSING"}
  /\ LET e == Err("transport", 0, message)
         w1 == [ws[c] EXCEPT !.errors = @ + 1,
                             !.readyState = IF closing THEN "CLOSING" ELSE @,
                             !.firstError = IF @.settled THEN @ ELSE [settled |-> TRUE, err |-> e]]
     IN IF Interrupts(c)
          THEN Settle(c, InFlight(c), Thrown(w1, e, "soon"), FALSE)
          ELSE Quiet(c, w1, FALSE)

OnMessage(c, p) ==
  /\ ready[c].state = "resolved"
  /\ ws[c].readyState \in {"OPEN", "CLOSING"}
  /\ LET m == [seq |-> ws[c].arrived + 1, type |-> p.type, data |-> p.data]
         w0 == [ws[c] EXCEPT !.arrived = @ + 1]
     IN IF w0.pops = <<>>
          THEN Quiet(c, [w0 EXCEPT !.messages = Append(@, m)], FALSE)
          ELSE LET k == Head(w0.pops)
                   w1 == [w0 EXCEPT !.pops = Tail(@),
                                    !.delivered = Append(@, [step |-> k, seq |-> m.seq])]
               IN IF chain[c][k].state = "running"
                    THEN Settle(c, k, checkMessage(w1, m, chain[c][k].step), FALSE)
                    ELSE Quiet(c, w1, FALSE)

OnClose(c, code, message) ==
  /\ ws[c].readyState \in {"OPEN", "CLOSING"}
  /\ ready[c].state # "pending"
  /\ LET w1 == [ws[c] EXCEPT !.readyState = "CLOSED",
                             !.closed = IF @.settled THEN @
                                        ELSE [settled |-> TRUE, code |-> code, message |-> message]]
     IN IF Running(c) = {} THEN Quiet(c, w1, TRUE)
        ELSE LET k == InFlight(c)
                 s == chain[c][k].step
             IN CASE pending[c] = "pop" -> Settle(c, k, Thrown(w1, closedWhileWaiting(w1), "soon"), TRUE)
                  [] pending[c] = "closed" /\ s.op = "expectClosed" -> Settle(c, k, checkClosed(w1, s), TRUE)
                  [] pending[c] = "closed" /\ s.op # "expectClosed" -> Settle(c, k, Thrown(w1, cannotSend(w1), "soon"), TRUE)
                  [] OTHER -> Quiet(c, w1, TRUE)

\* the callback ws.send was given
SendCallback(c, message) ==
  /\ Running(c) # {}
  /\ \/ pending[c] = "sendCallback" /\ message \in {"", "EPIPE"}
     \/ pending[c] = "sendRefused" /\ message = NotOpenMessage
  /\ LET k == InFlight(c)
         w1 == [ws[c] EXCEPT !.reported = Append(@, [step |-> k, message |-> message])]
     IN Settle(c, k, IF message = "" THEN Done(ws[c], "soon") ELSE sendFailed(w1, message), FALSE)

\* ------------------------------------------------------------------ timers
\* c has a timer set: the one of wait, or the one expectMessage sets for a timeout > 0
Timing(c) ==
  /\ Running(c) # {}
  /\ \/ pending[c] = "timer"
     \/ pending[c] = "pop" /\ TimeoutArmed(chain[c][InFlight(c)].step)

Due(c) ==
  /\ Running(c) # {}
  /\ LET s == chain[c][InFlight(c)].step IN
       \/ pending[c] = "timer" /\ elapsed[c] >= Val(s.timeout)
       \/ pending[c] = "pop" /\ TimeoutArmed(s) /\ elapsed[c] >= Val(s.timeout)

Tick ==
  /\ \A c \in Conns : ~Due(c)
  /\ \E c \in Conns : Timing(c)
  /\ elapsed' = [c \in Conns |-> IF Timing(c) THEN elapsed[c] + 1 ELSE elapsed[c]]
  /\ UNCHANGED <<ws, ready, chain, pending, clientSockets>>
  /\ UNCHANGED outside

TimerFires(c) ==
  /\ Due(c)
  /\ LET k == InFlight(c)
         s == chain[c][k].step
     IN Settle(c, k, IF pending[c] = "timer" THEN Done(ws[c], "soon")
                     ELSE Thrown(ws[c], timedOut(s), "soon"), FALSE)

\* ------------------------------------------------------------- the server
\* server.listen, by the test
listen ==
  /\ ~server.listening /\ server.listens < MaxListens
  /\ server' = [server EXCEPT !.listening = TRUE, !.listens = @ + 1]
  /\ UNCHANGED <<connVars, peers, loops, lastClose, thrown>>

\* a later call of request() replaces the delay
overwrite(old, new) == new

\* Math.max
max(old, new) == IF new > old THEN new ELSE old

registerShutdown(srv, shutdownDelay) ==
  IF IsSome(srv.testConfig)
    THEN [srv EXCEPT !.testConfig = Some(max(Val(@), shutdownDelay))]
    ELSE [srv EXCEPT !.testConfig = Some(shutdownDelay), !.serverSockets = {}]

\* request(server, { shutdownDelay }) with a server handle
request(shutdownDelay) ==
  IF ~server.listening
    THEN /\ thrown' = MustListenMessage
         /\ UNCHANGED <<connVars, server, peers, loops, lastClose>>
    ELSE /\ server' = [registerShutdown(server, shutdownDelay) EXCEPT
                         !.obj = TRUE, !.passed = @ \cup {shutdownDelay}]
         /\ UNCHANGED <<connVars, peers, loops, lastClose, thrown>>

\* getServerWsPath lets every call through
getServerWsPathUnchecked(srv) == TRUE

\* getServerWsPath returns a path (TRUE) or throws
getServerWsPath(srv) == srv.listening

\* obj.ws(path) of an object request(server) returned
objWs(c) ==
  /\ server.obj
  /\ IF getServerWsPath(server)
       THEN wsRequest(c)
       ELSE /\ thrown' = ServerClosedMessage
            /\ UNCHANGED <<connVars, server, peers, loops, lastClose>>

\* 'connection' of the server: the listener exists once the server is registered
OnConnection(p) ==
  /\ server.listening /\ peers[p].state = "none"
  /\ peers' = [peers EXCEPT ![p].state = "open"]
  /\ server' = IF IsSome(server.testConfig)
                 THEN [server EXCEPT !.serverSockets = @ \cup {p}] ELSE server
  /\ UNCHANGED <<connVars, loops, lastClose, thrown>>

\* 'close' of the socket of peer p
OnPeerClose(p) ==
  /\ peers[p].state = "open"
  /\ peers' = [peers EXCEPT ![p].state = "closed"]
  /\ server' = [server EXCEPT !.serverSockets = @ \ {p}]
  /\ UNCHANGED <<connVars, loops, lastClose, thrown>>

\* s.end() for every s of S
end(ps, S) == [p \in Peers |-> IF p \in S THEN [ps[p] EXCEPT !.ended = TRUE] ELSE ps[p]]

\* the loops performShutdown starts, each run up to its first await;
\* left: the milliseconds until expire, wait: those until its timer fires
startLoops(sockets, shutdownDelay) ==
  {[peer |-> s, left |-> shutdownDelay, wait |-> PollMs] : s \in sockets}

\* the else branch without the test of callback
notListeningAlways(callback) == <<"callback">>

\* the else branch of the replaced server.close
notListening(callback) == IF callback THEN <<"callback">> ELSE <<>>

\* server.close(callback) as registerShutdown replaces it
serverClose(callback) ==
  /\ IsSome(server.testConfig)
  /\ IF server.listening
       THEN LET shutdownDelay == Val(server.testConfig) IN
            /\ IF shutdownDelay <= 0
                 THEN peers' = end(peers, server.serverSockets) /\ UNCHANGED loops
                 ELSE loops' = loops \cup startLoops(server.serverSockets, shutdownDelay)
                      /\ UNCHANGED peers
            /\ server' = [server EXCEPT !.testConfig = Some(0), !.passed = {},
                                        !.listening = FALSE]
            /\ lastClose' = [turn |-> 1 - lastClose.turn, callback |-> callback,
                             did |-> <<"performShutdown", "originalClose">>]
       ELSE /\ lastClose' = [turn |-> 1 - lastClose.turn, callback |-> callback,
                             did |-> notListening(callback)]
            /\ UNCHANGED <<server, peers, loops>>
  /\ UNCHANGED <<connVars, thrown>>

\* the timer of a polling loop has fired
Woken(l) == l.wait <= 0

\* time passes while a loop polls
ShutdownTick ==
  /\ loops # {}
  /\ \A l \in loops : ~Woken(l)
  /\ loops' = {[l EXCEPT !.left = IF @ > TickMs THEN @ - TickMs ELSE 0,
                          !.wait = @ - TickMs] : l \in loops}
  /\ UNCHANGED <<connVars, server, peers, lastClose, thrown>>

\* a loop that does not wait for expire
beforeExpireNever(l) == FALSE

\* Date.now() < expire
beforeExpire(l) == l.left > 0

\* a loop goes on after its await: lines 269-275
Poll(l) ==
  /\ l \in loops /\ Woken(l)
  /\ IF beforeExpire(l) /\ l.peer \in server.serverSockets
       THEN /\ loops' = (loops \ {l}) \cup {[l EXCEPT !.wait = PollMs]}
            /\ UNCHANGED peers
       ELSE /\ loops' = loops \ {l}
            /\ peers' = IF l.peer \in server.serverSockets THEN end(peers, {l.peer}) ELSE peers
  /\ UNCHANGED <<connVars, server, lastClose, thrown>>

\* ------------------------------------------------------- the example server
\* the test of the README: one expression, whose calls are made in order
EchoPipeline ==
  <<Step("expectText", "msgText", Some("hello"), None, None, None),
    Step("sendText", "", Some("foo"), None, None, None),
    Step("expectText", "msgText", Some("echo foo"), None, None, None),
    Step("close", "", None, None, None, None),
    Step("expectClosed", "", None, None, None, None)>>

EchoCall(c) ==
  /\ Len(chain[c]) < Len(EchoPipeline)
  /\ thenDo(c, EchoPipeline[Len(chain[c]) + 1])

\* the send steps of c whose message the transport took
Accepted(c) ==
  {k \in DOMAIN chain[c] :
     /\ chain[c][k].step.op \in SendOps /\ chain[c][k].started
     /\ ~(chain[c][k].state = "running" /\ pending[c] = "sendRefused")
     /\ \A i \in DOMAIN ws[c].reported : ws[c].reported[i].step # k}

\* the server's answer to a text message
echo(message) ==
  IF message = "trigger-server-close" THEN [close |-> TRUE, data |-> ""]
  ELSE [close |-> FALSE, data |-> "echo " \o message]

\* what the server has sent or has yet to send to c: 'hello' on connection,
\* then its answers to the messages it was sent, in order
RECURSIVE echoes(_, _)
echoes(c, k) ==
  IF k > Len(chain[c]) THEN <<>>
  ELSE IF k \in Accepted(c) /\ ~echo(Val(chain[c][k].step.check)).close
    THEN <<echo(Val(chain[c][k].step.check)).data>> \o echoes(c, k + 1)
    ELSE echoes(c, k + 1)

EchoServerSends(c) ==
  LET out == <<"hello">> \o echoes(c, 1) IN
  /\ ws[c].arrived < Len(out)
  /\ OnMessage(c, Text(out[ws[c].arrived + 1]))

\* the server answers the close frame of the client: the 'close' event has
\* the code of a frame without one
EchoServerCloses(c) ==
  /\ ws[c].readyState = "CLOSING" /\ ws[c].closeCalls > 0
  /\ OnClose(c, 1005, "")

\* ------------------------------------------------------------ specifications
\* One test drives connection A with steps drawn from menu; the transport
\* delivers payloads of P and closes with a (code, reason) of K.
Test(menu) ==
  \/ wsRequest("A")
  \/ \E s \in menu : Len(chain["A"]) < MaxSteps /\ thenDo("A", s)
  \/ StartStep("A")

Transport(P, K) ==
  \/ OnUpgrade("A")
  \/ OnOpen("A")
  \/ \E e \in HandshakeErrors : OnHandshakeError("A", e)
  \/ \E e \in TransportErrors, closing \in BOOLEAN :
       ws["A"].errors < MaxErrors /\ OnError("A", e, closing)
  \/ \E p \in P : ws["A"].arrived < MaxMsgs /\ OnMessage("A", p)
  \/ \E k \in K : OnClose("A", k[1], k[2])

Sender == \E e \in SendFailures \cup {""} : SendCallback("A", e)

Timers == Tick \/ TimerFires("A")

\* every kind of step; "hello" passes expectText() and fails expectText("echo foo")
AllSteps ==
  {Step("sendText", "", None, None, None, None)} \cup WaitSteps \cup ExecSteps
    \cup {Step("expectText", "msgText", ck, Some(1), None, None) : ck \in {None, Some("echo foo")}}
    \cup CloseSteps \cup {Step("expectClosed", "", None, None, None, None)}
    \cup ExpectUpgradeSteps

Next ==
  \/ Test(AllSteps)
  \/ Transport({Text("hello"), Binary("6f")}, {<<1000, "">>, <<4321, "Oops">>})
  \/ Sender
  \/ Timers

Spec == Init /\ [][Next]_vars

\* the four send steps, on a socket the test or the server may have closed
NextSend ==
  \/ Test(SendSteps \cup CloseSteps)
  \/ Transport({Text("hello")}, CloseCodes \X CloseReasons)
  \/ Sender

SpecSend == Init /\ [][NextSend]_vars

\* the message expectations: every conversion, check and timeout
NextExpect ==
  \/ Test(ExpectTextSteps \cup ExpectBinarySteps)
  \/ Transport(Payloads, {<<1000, "">>, <<4321, "Oops">>})
  \/ Timers

SpecExpect == Init /\ [][NextExpect]_vars

\* expectClosed with every combination of expected code and reason
NextClosed ==
  \/ Test(ExpectClosedSteps \cup CloseSteps)
  \/ Transport({Text("hello")}, CloseCodes \X CloseReasons)

SpecClosed == Init /\ [][NextClosed]_vars

\* handshakes that fail or succeed, with expectConnectionError and the other
\* fluent calls made through any promise that offers them
ConnectErrors == {"Unexpected server response: 404", "Unexpected server response: 500"}

NextConnect ==
  \/ wsRequest("A")
  \/ \E s \in ExpectConnectionErrorSteps :
       Len(chain["A"]) < MaxSteps /\ expectConnectionError("A", s)
  \/ \E s \in CloseSteps \cup ExpectClosedSteps :
       Len(chain["A"]) < MaxSteps /\ thenDo("A", s)
  \/ StartStep("A")
  \/ OnUpgrade("A")
  \/ OnOpen("A")
  \/ \E e \in ConnectErrors : OnHandshakeError("A", e)
  \/ \E k \in {<<1006, "">>} : OnClose("A", k[1], k[2])

SpecConnect == Init /\ [][NextConnect]_vars

\* three connections and the registry: each is opened, fails its handshake
\* or opens, is closed by its test, by the server or by request.closeAll
NextRegistry ==
  \/ \E c \in Conns :
       \/ wsRequest(c)
       \/ OnUpgrade(c)
       \/ OnOpen(c)
       \/ \E e \in HandshakeErrors : OnHandshakeError(c, e)
       \/ \E k \in {<<1000, "">>} : OnClose(c, k[1], k[2])
  \/ \E s \in CloseSteps : Len(chain["A"]) < MaxSteps /\ thenDo("A", s)
  \/ StartStep("A")
  \/ closeAll

SpecRegistry == Init /\ [][NextRegistry]_vars

\* one server: its test listens, registers it, connects through it and closes
\* it, while peers connect and close and the polling loops run
NextServer ==
  \/ listen
  \/ \E d \in ShutdownDelays : request(d)
  \/ objWs("A")
  \/ \E p \in Peers : OnConnection(p)
  \/ \E p \in Peers : OnPeerClose(p)
  \/ \E callback \in BOOLEAN : serverClose(callback)
  \/ ShutdownTick
  \/ \E l \in loops : Poll(l)

SpecServer == Init /\ [][NextServer]_vars

\* the test of the README against the example server over a transport that
\* works: every call of the test is made, every event is delivered, every
\* reaction and every callback of ws.send runs
EchoConns == {"A", "B"}

EchoTest(c) ==
  \/ wsRequest(c)
  \/ EchoCall(c)
  \/ StartStep(c)

EchoTransport(c) ==
  \/ OnUpgrade(c)
  \/ OnOpen(c)
  \/ EchoServerSends(c)
  \/ EchoServerCloses(c)
  \/ \E e \in {"", NotOpenMessage} : SendCallback(c, e)

NextEcho == \E c \in EchoConns : EchoTest(c) \/ EchoTransport(c)

SpecEcho ==
  /\ Init /\ [][NextEcho]_vars
  /\ \A c \in EchoConns : WF_vars(EchoTest(c)) /\ WF_vars(EchoTransport(c))

\* the shutdown of the server alone; the timers of the polling loops fire,
\* and time passes while one of them is set
NextShutdown ==
  \/ listen
  \/ \E d \in ShutdownDelays : request(d)
  \/ \E p \in Peers : OnConnection(p)
  \/ \E p \in Peers : OnPeerClose(p)
  \/ \E callback \in BOOLEAN : serverClose(callback)
  \/ ShutdownTick
  \/ \E l \in loops : Poll(l)

SpecShutdown ==
  /\ Init /\ [][NextShutdown]_vars
  /\ WF_vars(ShutdownTick)
  /\ WF_vars(\E l \in loops : Poll(l))

\* two tests, each with a connection of its own, run side by side: their
\* expectations get a message or fail on a close, on an error or on a
\* timeout, and the events of both transports come in any order
PairConns == {"A", "B"}

PairSteps == {Step("expectText", "msgText", None, Some(1), None, None)}

PairTest(c) ==
  \/ wsRequest(c)
  \/ \E s \in PairSteps : Len(chain[c]) < MaxSteps /\ thenDo(c, s)
  \/ StartStep(c)

PairTransport(c) ==
  \/ OnUpgrade(c)
  \/ OnOpen(c)
  \/ \E e \in TransportErrors : ws[c].errors < MaxErrors /\ OnError(c, e, FALSE)
  \/ ws[c].arrived < MaxMsgs /\ OnMessage(c, Text("hello"))
  \/ OnClose(c, 1000, "")
  \/ TimerFires(c)

NextPair ==
  \/ \E c \in PairConns : PairTest(c) \/ PairTransport(c)
  \/ Tick

SpecPair == Init /\ [][NextPair]_vars

\* errors after 'open', one more than MaxErrors so that a first error is
\* followed by a different one, before, between and during steps that
\* suspend or return at once
ErrorSteps ==
  WaitSteps \cup {Step("exec", "returns", None, None, None, None),
                  Step("expectText", "msgText", None, None, None, None),
                  Step("expectClosed", "", None, None, None, None)}

NextErrors ==
  \/ Test(ErrorSteps)
  \/ OnUpgrade("A")
  \/ OnOpen("A")
  \/ \E e \in SeveralErrors : ws["A"].errors <= MaxErrors /\ OnError("A", e, FALSE)
  \/ ws["A"].arrived < MaxMsgs /\ OnMessage("A", Text("hello"))
  \/ OnClose("A", 1000, "")
  \/ Timers

SpecErrors == Init /\ [][NextErrors]_vars

\* the steps that await ws.closed: expectClosed with every combination of
\* expected code and reason, an expectation of a message, a send
SignalSteps ==
  ExpectClosedSteps
    \cup {Step("expectText", "msgText", None, None, None, None),
          Step("sendText", "", None, None, None, None)}

NextSignal ==
  \/ Test(SignalSteps)
  \/ Transport({Text("hello")}, {<<1000, "">>, <<4321, "Oops">>})
  \/ Sender

SpecSignal == Init /\ [][NextSignal]_vars

\* ------------------------------------------------------------------ claims
Steps(c) == DOMAIN chain[c]
Failed(c, k) == chain[c][k].state = "rejected" /\ chain[c][k].started
FailsNow(c, k) == chain[c][k].state # "rejected" /\ chain'[c][k].state = "rejected" /\ chain'[c][k].started

\* C1: at most one step of a connection is in flight, and a step has started
\* only if every step called before it has been fulfilled.
C1_Sequential ==
  \A c \in Conns :
    /\ Cardinality(Running(c)) <= 1
    /\ \A k \in Steps(c) :
         chain[c][k].started => \A j \in 1..(k - 1) : chain[c][j].state = "fulfilled"

C1_Witness ==
  \E c \in Conns :
    /\ Len(chain[c]) >= 2
    /\ chain[c][1].state = "fulfilled" /\ chain[c][1].step.op = "wait"
    /\ chain[c][2].state = "running"

C2_AfterFailure ==
  \A c \in Conns : \A k \in Steps(c) :
    Failed(c, k) =>
      \A j \in Steps(c) :
        j > k => /\ ~chain[c][j].started
                 /\ chain[c][j].state = "rejected"
                 /\ chain[c][j].err = chain[c][k].err

C2_Stable ==
  \A c \in Conns : \A k \in Steps(c) :
    chain[c][k].state = "rejected" => chain'[c][k] = chain[c][k]

\* C2: after a step has failed no later step is ever started, every later
\* promise of the chain (the final one included) is rejected with the error
\* of that step, and a rejected promise never changes again.
C2_ShortCircuit == []C2_AfterFailure /\ [][C2_Stable]_vars

C2_Witness ==
  \E c \in Conns :
    /\ Len(chain[c]) >= 2
    /\ Failed(c, 1) /\ chain[c][1].err.kind = "mismatch"
    /\ chain[c][2].state = "rejected" /\ ~chain[c][2].started
    /\ ws[c].firstError.settled

C3_Interrupted ==
  \A c \in Conns :
    (Running(c) # {} /\ ~ws[c].firstError.settled /\ ws'[c].firstError.settled) =>
      /\ chain'[c][InFlight(c)].state = "rejected"
      /\ chain'[c][InFlight(c)].err = ws'[c].firstError.err

\* C3: when the first error after 'open' is emitted while a step is
\* suspended, that step is rejected with that error in the same event.
C3_FailFast == [][C3_Interrupted]_vars

\* a wait whose timer ran for 1 ms and had not fired when the error came
C3_Witness ==
  \E c \in Conns : \E k \in Steps(c) :
    /\ Failed(c, k) /\ chain[c][k].step.op = "wait"
    /\ chain[c][k].err.kind = "transport"
    /\ elapsed[c] = 1

\* A failure that finds the socket CONNECTING or OPEN calls ws.close once;
\* when it does not, the socket was not open, or the event that caused the
\* failure (a close event, an error the transport answers by closing) has
\* itself moved it out of OPEN.
C4_CloseOnFailure ==
  \A c \in Conns : \A k \in Steps(c) :
    FailsNow(c, k) =>
      /\ ~isOpen(ws'[c])
      /\ ws'[c].closeCalls \in {ws[c].closeCalls, ws[c].closeCalls + 1}
      /\ ws'[c].closeCalls # ws[c].closeCalls =>
           isOpen(ws[c]) /\ ws'[c].readyState = "CLOSING" /\ c \notin clientSockets'
      /\ (isOpen(ws[c]) /\ ws'[c].closed = ws[c].closed /\ ws'[c].errors = ws[c].errors) =>
           ws'[c].closeCalls = ws[c].closeCalls + 1

C4_NotLeftOpen ==
  \A c \in Conns :
    (\E k \in Steps(c) : Failed(c, k)) => Last(c).state = "rejected" /\ ~isOpen(ws[c])

\* C4: a step failure calls ws.close exactly when the socket is CONNECTING
\* or OPEN at that moment, so a chain rejected by a step failure never
\* leaves the socket OPEN.
C4_Cleanup == []C4_NotLeftOpen /\ [][C4_CloseOnFailure]_vars

C4_Witness ==
  \E c \in Conns : \E k \in Steps(c) :
    /\ Failed(c, k) /\ chain[c][k].err.kind = "timeout"
    /\ ws[c].closeCalls = 1 /\ ws[c].readyState = "CLOSING"
    /\ \A j \in Steps(c) : chain[c][j].step.op # "close"

\* C5: a send step whose callback reported a failure is never fulfilled.
C5_NoSwallowedSendFailure ==
  \A c \in Conns : \A i \in DOMAIN ws[c].reported :
    chain[c][ws[c].reported[i].step].state # "fulfilled"

Refused(c) == {r \in {ws[c].reported[i] : i \in DOMAIN ws[c].reported} : r.message = NotOpenMessage}
WaitsForClosed(c, k) ==
  chain[c][k].state = "running" /\ pending[c] = "closed" /\ ~ws[c].closed.settled
CannotSend(c, k) ==
  /\ chain[c][k].state = "rejected" /\ ws[c].closed.settled
  /\ chain[c][k].err = Err("cannotSend", ws[c].closed.code, ws[c].closed.message)
FailedWithFirstError(c, k) ==
  /\ Failed(c, k) /\ ws[c].firstError.settled
  /\ chain[c][k].err = ws[c].firstError.err

ExpectOps == {"expectText", "expectBinary"}

\* C7: the i-th satisfied pop() got the i-th message that arrived, later
\* steps got later messages, and every message not yet popped is in the
\* buffer, in arrival order.
C7_Fifo ==
  \A c \in Conns :
    LET d == ws[c].delivered
        q == ws[c].messages
    IN /\ \A i \in DOMAIN d : d[i].seq = i
       /\ \A i \in DOMAIN q : q[i].seq = Len(d) + i
       /\ Len(d) + Len(q) = ws[c].arrived
       /\ \A i, j \in DOMAIN d : i < j => d[i].step < d[j].step
       /\ \A i \in DOMAIN d : /\ d[i].step \in Steps(c)
                              /\ chain[c][d[i].step].started
                              /\ chain[c][d[i].step].step.op \in ExpectOps
       /\ ws[c].pops # <<>> => q = <<>>

\* the second message arrived before the second expectation was started
C7_Witness ==
  \E c \in Conns :
    /\ Len(chain[c]) >= 2
    /\ chain[c][1].state = "fulfilled" /\ chain[c][2].state = "queued"
    /\ ws[c].delivered = <<[step |-> 1, seq |-> 1]>>
    /\ Len(ws[c].messages) = 1

C8_Closes ==
  \A c \in Conns :
    (Running(c) # {} /\ pending[c] = "pop" /\ ~ws[c].closed.settled /\ ws'[c].closed.settled) =>
      /\ chain'[c][InFlight(c)].state = "rejected"
      /\ chain'[c][InFlight(c)].err =
           Err("closedWhileWaiting", ws'[c].closed.code, ws'[c].closed.message)

C8_NotSuspended ==
  \A c \in Conns : (Running(c) # {} /\ pending[c] = "pop") => ~ws[c].closed.settled

\* C8: the close event, fired while an expectation waits for a message,
\* rejects it with the code and reason of the event, at once.
C8_ClosedWhileWaiting == []C8_NotSuspended /\ [][C8_Closes]_vars

\* the expectation had waited 1 ms when the close event fired
C8_Witness ==
  \E c \in Conns : \E k \in Steps(c) :
    /\ Failed(c, k) /\ chain[c][k].err = Err("closedWhileWaiting", 4321, "Oops")
    /\ elapsed[c] = 1 /\ ws[c].pops = <<k>>

Armed(s) == IsSome(s.timeout) /\ Val(s.timeout) > 0

C9_TimerOnly ==
  \A c \in Conns :
    (/\ Running(c) # {} /\ pending[c] = "pop"
     /\ chain'[c][InFlight(c)].state # "running"
     /\ ws'[c].arrived = ws[c].arrived
     /\ ws'[c].closed = ws[c].closed
     /\ ws'[c].errors = ws[c].errors) =>
      LET s == chain[c][InFlight(c)].step IN
      /\ Armed(s) /\ elapsed[c] = Val(s.timeout)
      /\ chain'[c][InFlight(c)].state = "rejected"
      /\ chain'[c][InFlight(c)].err = Err("timeout", Val(s.timeout), "nothing arrived")
      /\ ~isOpen(ws'[c])

C9_TimedOut ==
  \A c \in Conns : \A k \in Steps(c) :
    LET s == chain[c][k].step IN
    /\ (Failed(c, k) /\ chain[c][k].err.kind = "timeout") =>
         Armed(s) /\ elapsed[c] = Val(s.timeout) /\ ~isOpen(ws[c])
    /\ (chain[c][k].state = "running" /\ Armed(s)) => elapsed[c] <= Val(s.timeout)

\* C9: an expectation that waits for a message settles without a message,
\* a close or an error only through its timer, which exists only for a
\* timeout > 0 and fires when timeout ms have passed; the step is then
\* rejected and the socket is no longer open.
C9_Timeout == []C9_TimedOut /\ [][C9_TimerOnly]_vars

C9_Witness ==
  \E c \in Conns : \E k \in Steps(c) :
    /\ Failed(c, k) /\ chain[c][k].err = Err("timeout", 1, "nothing arrived")
    /\ ws[c].closeCalls = 1 /\ ws[c].readyState = "CLOSING"
    /\ ws[c].arrived = k - 1

Matches(c, s) ==
  /\ s.code = None \/ s.code = Some(ws[c].closed.code)
  /\ s.message = None \/ s.message = Some(ws[c].closed.message)
ClosedOutcome(c, k) ==
  /\ ws[c].closed.settled
  /\ IF Matches(c, chain[c][k].step)
       THEN chain[c][k].state = "fulfilled"
       ELSE /\ chain[c][k].state = "rejected"
            /\ chain[c][k].err.kind \in {"closeCode", "closeMessage"}
            /\ chain[c][k].err.code = ws[c].closed.code
            /\ chain[c][k].err.message = ws[c].closed.message
StartedExpectClosed(c) ==
  {k \in Steps(c) : chain[c][k].started /\ chain[c][k].step.op = "expectClosed"}

\* C10 as stated: a started expectClosed step is suspended until the close
\* event, and afterwards fulfilled iff the expected code and reason, where
\* given, equal the actual ones, and rejected otherwise.
C10_Stated ==
  \A c \in Conns : \A k \in StartedExpectClosed(c) :
    IF ws[c].closed.settled THEN ClosedOutcome(c, k) ELSE chain[c][k].state = "running"

\* C10 as amended: the same, unless the first error after 'open' was emitted
\* before the step could see the close event; the step then fails with it.
C10_ExpectClosed ==
  \A c \in Conns : \A k \in StartedExpectClosed(c) :
    \/ FailedWithFirstError(c, k)
    \/ IF ws[c].closed.settled THEN ClosedOutcome(c, k) ELSE chain[c][k].state = "running"

C10_Witness ==
  \E c \in Conns : \E k \in StartedExpectClosed(c) :
    /\ chain[c][k].step.code = Some(1000) /\ chain[c][k].step.message = Some("Oops")
    /\ chain[c][k].state = "rejected" /\ chain[c][k].err = Err("closeMessage", 1000, "")

ConnectionErrorFirst(c) ==
  Len(chain[c]) >= 1 /\ chain[c][1].step.op = "expectConnectionError"
ExpectedMessage(s) ==
  IF IsSome(s.code) THEN "Unexpected server response: " \o ToString(Val(s.code))
  ELSE IF IsSome(s.message) THEN Val(s.message) ELSE ""
Absent(s) == s.code = None /\ s.message = None
AbsentOrFalsy(s) == s.code \in {None, Some(0)} /\ s.message \in {None, Some("")}
\* the outcome of an expectConnectionError called first, passes: the
\* rejection of the handshake is the expected one
ConnectionErrorOutcome(c, passes) ==
  LET p == chain[c][1] IN
  CASE ready[c].state = "rejected" ->
         IF passes THEN p.state = "fulfilled"
         ELSE p.state = "rejected" /\ p.err = Err("connectionError", 0, ready[c].err.message)
    [] ready[c].state = "resolved" ->
         \/ p.state = "queued"
         \/ /\ p.state = "rejected" /\ p.err = Err("shouldFail", 0, ShouldFailMessage)
            /\ ws[c].closeCalls >= 1 /\ ~isOpen(ws[c]) /\ c \notin clientSockets
    [] OTHER -> p.state = "queued"

\* C11 as stated: expectConnectionError(expected), called first, resolves
\* when the handshake is rejected and expected is absent or is the message
\* of the rejection (for a number n, "Unexpected server response: n"),
\* rejects when the handshake is rejected with another message, and closes
\* the connection and rejects when the handshake succeeds.
C11_Stated ==
  \A c \in Conns :
    ConnectionErrorFirst(c) =>
      LET s == chain[c][1].step IN
      ConnectionErrorOutcome(c, Absent(s) \/ ready[c].err.message = ExpectedMessage(s))

\* C11 as amended: the same, where an expected value of 0 or "" counts as
\* absent.
C11_ConnectionError ==
  \A c \in Conns :
    ConnectionErrorFirst(c) =>
      LET s == chain[c][1].step IN
      ConnectionErrorOutcome(c, AbsentOrFalsy(s) \/ ready[c].err.message = ExpectedMessage(s))

\* expectConnectionError(404) after the server answered 404
C11_Witness ==
  \E c \in Conns :
    /\ ConnectionErrorFirst(c) /\ chain[c][1].step.code = Some(404)
    /\ ready[c] = [state |-> "rejected", err |-> Err("handshake", 0, "Unexpected server response: 404")]
    /\ chain[c][1].state = "fulfilled" /\ ws[c].readyState = "CLOSED"

\* C12: a chain holds an expectConnectionError only as its first and only
\* call: none is appended after another call, and no call is appended after it.
C12_OnlyFirst ==
  \A c \in Conns : \A k \in Steps(c) :
    chain[c][k].step.op = "expectConnectionError" => k = 1 /\ Len(chain[c]) = 1

OpenInRegistry == {c \in clientSockets : ws[c].readyState \in {"CONNECTING", "OPEN"}}
CloseAllCalled == Len(closeAllCalls') = Len(closeAllCalls) + 1

C13_Call ==
  CloseAllCalled =>
    /\ closeAllCalls'[Len(closeAllCalls')].returned = Cardinality(OpenInRegistry)
    /\ \A c \in Conns :
         ws'[c].closeCalls = IF c \in OpenInRegistry THEN ws[c].closeCalls + 1 ELSE ws[c].closeCalls
    /\ \A c \in OpenInRegistry : ws'[c].readyState = "CLOSING"
    /\ clientSockets' = {}

C13_Again ==
  (/\ CloseAllCalled /\ closeAllCalls # <<>>
   /\ closeAllCalls[Len(closeAllCalls)].made = Cardinality({c \in Conns : ws[c].readyState # "NONE"})) =>
    /\ closeAllCalls'[Len(closeAllCalls')].returned = 0
    /\ ws' = ws

\* C13: request.closeAll returns the number of connections of the registry
\* that are CONNECTING or OPEN, calls close on exactly those and empties the
\* registry; called again with no connection made since, it returns 0 and
\* closes nothing.
C13_CloseAll == [][C13_Call /\ C13_Again]_vars

\* three connections, closeAll twice: 3, then 0
C13_Witness ==
  /\ Len(closeAllCalls) = 2
  /\ closeAllCalls[1].returned = 3 /\ closeAllCalls[2].returned = 0
  /\ \A c \in Conns : ws[c].closeCalls = 1 /\ ws[c].readyState \in {"CLOSING", "CLOSED"}
  /\ clientSockets = {}

Tracked(p) == p \in server.serverSockets
ServerCloseCalled == lastClose'.turn # lastClose.turn
\* the grace period of a shutdown that includes p has elapsed
Elapsed(p) == \E l \in loops : l.peer = p /\ l.left = 0
ForceEnded(p) == ~peers[p].ended /\ peers'[p].ended

C14_Zero ==
  (ServerCloseCalled /\ server.listening /\ server.testConfig = Some(0)) =>
    /\ \A p \in Peers : Tracked(p) => peers'[p].ended
    /\ lastClose'.did = <<"performShutdown", "originalClose">>
    /\ loops' = loops

C14_Grace ==
  \A p \in Peers :
    /\ ForceEnded(p) =>
         /\ Tracked(p)
         /\ \/ ServerCloseCalled /\ server.listening /\ server.testConfig = Some(0)
            \/ Elapsed(p)
    /\ (peers[p].state = "closed" /\ ~peers[p].ended) => ~peers'[p].ended

C14_Polled ==
  \A l \in loops :
    (l.wait <= 0 /\ l \notin loops' /\ l.left = 0 /\ Tracked(l.peer)) => peers'[l.peer].ended

\* C14 as stated, for a grace period g > 0: a peer that is tracked when g
\* has elapsed is force-ended.
C14_Stated == \A p \in Peers : (Tracked(p) /\ Elapsed(p)) ~> peers[p].ended

\* C14 as amended: close on a listening, registered server with grace period
\* 0 ends every tracked peer and then calls the original close; with a grace
\* period g > 0 a peer is force-ended only while it is tracked and after g
\* has elapsed, so never when it closed itself before; a peer that is still
\* tracked at the first poll after g has elapsed is force-ended by that
\* poll, and a peer tracked when g has elapsed is in the end force-ended or
\* has closed itself.
C14_Shutdown ==
  /\ [][C14_Zero /\ C14_Grace /\ C14_Polled]_vars
  /\ \A p \in Peers :
       (Tracked(p) /\ Elapsed(p)) ~> (peers[p].ended \/ peers[p].state = "closed")

\* one shutdown with a grace period: p closed itself and its loop has yet to
\* find that out; q was still tracked when its loop found the period over
C14_Witness ==
  /\ server.listens = 1 /\ ~server.listening
  /\ loops = {[peer |-> "p", left |-> 0, wait |-> 0]}
  /\ peers["p"] = [state |-> "closed", ended |-> FALSE]
  /\ peers["q"] = [state |-> "open", ended |-> TRUE] /\ Tracked("q")

Greatest(S) == CHOOSE x \in S : \A y \in S : y <= x

C15_Effective ==
  IF IsSome(server.testConfig)
    THEN Val(server.testConfig) = Greatest(server.passed \cup {0})
    ELSE server.passed = {}

C15_Reset ==
  (ServerCloseCalled /\ server.listening) => server'.testConfig = Some(0)

C15_NeverLowered ==
  (IsSome(server.testConfig) /\ ~(ServerCloseCalled /\ server.listening)) =>
    /\ IsSome(server'.testConfig)
    /\ Val(server'.testConfig) >= Val(server.testConfig)

\* C15: the shutdownDelay kept for a server is the greatest one request()
\* was given since the last close of the listening server (0 when there was
\* none), no call of request() lowers it, and every close of the listening
\* server sets it to 0.
C15_GracePeriod == []C15_Effective /\ [][C15_Reset /\ C15_NeverLowered]_vars

\* after one shutdown the server was registered again with 10 and 30
C15_Witness ==
  /\ server.listens = 2 /\ server.listening
  /\ server.passed = {10, 30} /\ server.testConfig = Some(30)
  /\ lastClose.did = <<"performShutdown", "originalClose">>

C16_Call ==
  (ServerCloseCalled /\ ~server.listening) =>
    /\ lastClose'.did = IF lastClose'.callback THEN <<"callback">> ELSE <<>>
    /\ peers' = peers /\ loops' = loops
    /\ server' = server

\* C16: close on a registered server that is not listening does not call
\* the original close, ends no peer, starts no polling loop and leaves the
\* kept shutdownDelay as it is; it calls the callback once when it was given
\* one, and does nothing otherwise.
C16_NotListening == [][C16_Call]_vars

\* close(callback) while the loops of the shutdown before it still poll
C16_Witness ==
  /\ lastClose.callback /\ lastClose.did = <<"callback">>
  /\ ~server.listening /\ loops # {}
  /\ \E p \in Peers : Tracked(p) /\ ~peers[p].ended

C17_Throws ==
  thrown' # thrown =>
    /\ ~server.listening
    /\ thrown' \in {MustListenMessage, ServerClosedMessage}
    /\ thrown' = ServerClosedMessage => server.obj
    /\ server' = server /\ peers' = peers /\ loops' = loops /\ lastClose' = lastClose
    /\ ws' = ws /\ ready' = ready /\ chain' = chain /\ clientSockets' = clientSockets

C17_NeedsListening ==
  ~server.listening =>
    /\ server'.testConfig = server.testConfig /\ server'.obj = server.obj
    /\ \A c \in Conns : ws[c].readyState = "NONE" => ws'[c].readyState = "NONE"
    /\ clientSockets' = clientSockets

\* C17: while the server is not listening, request(server) and obj.ws(path)
\* only throw: request() makes no serverTestConfigs entry (so no connection
\* listener and no replaced close) and changes none, obj.ws() makes no
\* connection and adds nothing to clientSockets.
C17_FailFast == [][C17_Throws /\ C17_NeedsListening]_vars

\* obj.ws(path) after the server was closed
C17_Witness ==
  /\ thrown = ServerClosedMessage
  /\ server.obj /\ ~server.listening /\ server.listens = 1
  /\ ws["A"].readyState = "NONE" /\ clientSockets = {}

CloseEventFired(c) == ws[c].closed.settled

\* C18: a connection in the registry was made by wsRequest, had no close
\* call and no close event, and no closeAll has emptied the registry since;
\* every connection that is CONNECTING or OPEN is in the registry.
C18_Registry ==
  /\ \A c \in clientSockets :
       /\ ws[c].readyState # "NONE"
       /\ ws[c].closeCalls = 0
       /\ ~CloseEventFired(c)
  /\ \A c \in Conns : ws[c].readyState \in {"CONNECTING", "OPEN"} => c \in clientSockets
  /\ \A i \in DOMAIN closeAllCalls :
       closeAllCalls[i].made = Cardinality({c \in Conns : ws[c].readyState # "NONE"})
         => clientSockets = {}

\* A was closed by its test, C by the server; B is open
C18_Witness ==
  /\ clientSockets = {"B"} /\ ws["B"].readyState = "OPEN"
  /\ ws["A"].closeCalls = 1 /\ ws["A"].readyState = "CLOSING"
  /\ ws["C"].closeCalls = 0 /\ CloseEventFired("C")
  /\ closeAllCalls = <<>>

Settled(p) == p.state \in {"resolved", "rejected"}

C19_Once ==
  \A c \in Conns : Settled(ready[c]) => ready'[c] = ready[c]

C19_BeforeOpen ==
  \A c \in Conns :
    (ready[c].state = "pending" /\ ws'[c].errors = ws[c].errors /\ ready'[c].state = "rejected") =>
      /\ ready'[c].err.kind = "handshake"
      /\ ~ws'[c].firstError.settled

C19_AfterOpen ==
  \A c \in Conns :
    ws'[c].errors # ws[c].errors =>
      /\ ready[c].state = "resolved" /\ ready'[c] = ready[c]
      /\ ws'[c].firstError.settled

C19_OneOutcome ==
  \A c \in Conns :
    /\ ready[c].state = "rejected" => ~ws[c].firstError.settled /\ ws[c].errors = 0
    /\ ws[c].firstError.settled => ready[c].state = "resolved" /\ ws[c].errors > 0
    /\ ready[c].state = "resolved" => ready[c].err = NoErr

\* C19: the ready promise settles once, resolved by 'open' or rejected by
\* an 'error' before it; an 'error' before 'open' rejects ready and leaves
\* firstError unsettled for good, an 'error' after 'open' settles firstError
\* and leaves ready as it is.
C19_Handshake == []C19_OneOutcome /\ [][C19_Once /\ C19_BeforeOpen /\ C19_AfterOpen]_vars

\* an 'error' after 'open', while no step was in flight
C19_Witness ==
  \E c \in Conns :
    /\ ready[c] = [state |-> "resolved", err |-> NoErr]
    /\ ws[c].firstError = [settled |-> TRUE, err |-> Err("transport", 0, "Invalid frame")]
    /\ chain[c] = <<>>

Resolved(c) ==
  /\ Len(chain[c]) = Len(EchoPipeline)
  /\ \A k \in Steps(c) : chain[c][k].state = "fulfilled"
NoRejection(c) ==
  /\ ready[c].state # "rejected"
  /\ \A k \in Steps(c) : chain[c][k].state # "rejected"

\* C20: against the example server the pipeline expectText('hello')
\* .sendText('foo').expectText('echo foo').close().expectClosed() never
\* rejects, and in the end every one of its promises is fulfilled and the
\* socket is CLOSED, for good.
C20_Echo ==
  \A c \in EchoConns :
    /\ [](NoRejection(c))
    /\ <>[](Resolved(c) /\ ws[c].readyState = "CLOSED")

\* both tests have passed; the messages went to the first and third step
C20_Witness ==
  \A c \in EchoConns :
    /\ Resolved(c) /\ ws[c].readyState = "CLOSED"
    /\ ws[c].closed = [settled |-> TRUE, code |-> 1005, message |-> ""]
    /\ ws[c].delivered = <<[step |-> 1, seq |-> 1], [step |-> 3, seq |-> 2]>>
    /\ ws[c].closeCalls = 1 /\ ws[c].reported = <<>>

\* what C21 lists of connection d is the same after the step as before it
Untouched(d) ==
  /\ ready'[d] = ready[d]
  /\ ws'[d] = ws[d]
  /\ (d \in clientSockets') = (d \in clientSockets)
  /\ chain'[d] = chain[d]
  /\ pending'[d] = pending[d]

Touched(c) == ~Untouched(c)

C21_Failure ==
  \A c \in Conns :
    (\E k \in Steps(c) : FailsNow(c, k)) =>
      /\ \A d \in Conns \ {c} : Untouched(d)
      /\ \A d \in Conns : ws'[d].closeCalls # ws[d].closeCalls => d = c

C21_OneAtATime ==
  \A c \in Conns : Touched(c) => \A d \in Conns \ {c} : Untouched(d)

\* C21: a call or an event of one connection changes nothing of any other
\* connection, and the failure of a step of one connection calls ws.close on
\* no other connection and leaves the other's ready promise, socket (message
\* queue, closed and firstError signals), registry membership and chain as
\* they were.
C21_Independent == [][C21_Failure /\ C21_OneAtATime]_vars

\* A's expectation failed on an error and A was closed and unregistered,
\* while B's expectation, suspended for 1 ms by then, is still waiting on an
\* open, registered socket with no signal settled
C21_Witness ==
  /\ Len(chain["A"]) >= 1 /\ Len(chain["B"]) >= 1
  /\ Failed("A", 1) /\ chain["A"][1].err.kind = "transport"
  /\ ws["A"].closeCalls = 1 /\ "A" \notin clientSockets
  /\ ws["B"].readyState = "OPEN" /\ "B" \in clientSockets
  /\ Running("B") = {1} /\ pending["B"] = "pop" /\ elapsed["B"] = 1
  /\ ~ws["B"].firstError.settled /\ ~ws["B"].closed.settled
  /\ ws["B"].closeCalls = 0

\* step k of c is started by this step of the system
StartsNow(c, k) == ~chain[c][k].started /\ chain'[c][k].started

C22_Remembered ==
  \A c \in Conns : ws[c].firstError.settled <=> ws[c].errors > 0

C22_Permanent ==
  \A c \in Conns : ws[c].firstError.settled => ws'[c].firstError = ws[c].firstError

C22_StartedAfterwards ==
  \A c \in Conns : \A k \in Steps(c) :
    ( /\ StartsNow(c, k)
      /\ ws[c].firstError.settled
      /\ wsMethods(ws[c], k, chain[c][k].step).out = "suspend" ) =>
        /\ chain'[c][k].state = "rejected"
        /\ chain'[c][k].err = ws[c].firstError.err

\* C22: firstError is settled from the first 'error' after 'open' on, also
\* when no step was in flight then; once settled it never changes, whatever
\* errors follow; and a step started after it whose operation would suspend
\* is rejected at once with that first error.
C22_FirstError == []C22_Remembered /\ [][C22_Permanent /\ C22_StartedAfterwards]_vars

\* a wait that failed with the first of two errors without ws.close being
\* called: the socket was closed by then, so the errors, which only an open
\* or closing socket emits, came before the wait started
C22_Witness ==
  /\ Len(chain["A"]) >= 1 /\ chain["A"][1].step.op = "wait"
  /\ Failed("A", 1) /\ FailedWithFirstError("A", 1)
  /\ ws["A"].errors = 2 /\ ws["A"].firstError.err.message = "Invalid frame"
  /\ ws["A"].readyState = "CLOSED" /\ ws["A"].closeCalls = 0

\* step k of c is a message expectation that starts with a message buffered
StartsBuffered(c, k) ==
  /\ StartsNow(c, k)
  /\ chain[c][k].step.op \in ExpectOps
  /\ ws[c].messages # <<>>

C23_Consumes ==
  \A c \in Conns : \A k \in Steps(c) :
    StartsBuffered(c, k) =>
      LET m == Head(ws[c].messages) IN
      /\ ws'[c].messages = Tail(ws[c].messages)
      /\ ws'[c].delivered = Append(ws[c].delivered, [step |-> k, seq |-> m.seq])
      /\ chain'[c][k].err.kind # "closedWhileWaiting"
      /\ ~ws[c].firstError.settled =>
           chain'[c][k].state =
             IF checkMessage(ws[c], m, chain[c][k].step).out = "ok" THEN "fulfilled" ELSE "rejected"

C23_OnlyWhenEmpty ==
  \A c \in Conns : \A k \in Steps(c) :
    (FailsNow(c, k) /\ chain'[c][k].err.kind = "closedWhileWaiting") =>
      /\ ws[c].messages = <<>>
      /\ ws'[c].closed.settled

\* C23: a message expectation that starts with a message buffered takes the
\* oldest one and is settled by it, whether or not the close event has been
\* fired by then; the failure "connection closed" comes only to an
\* expectation that found the queue empty.
C23_BufferedBeforeClose == [][C23_Consumes /\ C23_OnlyWhenEmpty]_vars

\* An expectation was settled (here rejected, for a mismatch) by a message it
\* found buffered, never having waited for one; ws.close was not called for
\* the failure, so the socket was CLOSED when the step started
C23_Witness ==
  \E k \in Steps("A") :
    /\ Failed("A", k) /\ chain["A"][k].err.kind = "mismatch"
    /\ \A i \in DOMAIN ws["A"].pops : ws["A"].pops[i] # k
    /\ \E i \in DOMAIN ws["A"].delivered : ws["A"].delivered[i].step = k
    /\ ws["A"].closed.settled /\ ws["A"].closeCalls = 0
    /\ ~ws["A"].firstError.settled

\* the errors that quote the code and reason of the close event
QuotesClose == {"closeCode", "closeMessage", "closedWhileWaiting", "cannotSend"}

C24_Once ==
  \A c \in Conns : ws[c].closed.settled => ws'[c].closed = ws[c].closed

C24_SameForAll ==
  \A c \in Conns : \A k \in Steps(c) :
    (Failed(c, k) /\ chain[c][k].err.kind \in QuotesClose) =>
      /\ ws[c].closed.settled
      /\ chain[c][k].err.code = ws[c].closed.code
      /\ chain[c][k].err.message = ws[c].closed.message

\* an expectClosed that starts after the signal settled, and after no error,
\* is settled at once by the code and reason the signal holds
C24_AtOnce ==
  \A c \in Conns : \A k \in Steps(c) :
    ( /\ StartsNow(c, k) /\ chain[c][k].step.op = "expectClosed"
      /\ ws[c].closed.settled /\ ~ws[c].firstError.settled ) =>
        chain'[c][k].state =
          IF checkClosed(ws[c], chain[c][k].step).out = "ok" THEN "fulfilled" ELSE "rejected"

\* an expectClosed that starts after a successful one with the same expected
\* code and reason succeeds in the step that starts it
C24_Again ==
  \A c \in Conns : \A k \in Steps(c) :
    ( /\ StartsNow(c, k) /\ chain[c][k].step.op = "expectClosed"
      /\ \E j \in 1..(k - 1) : /\ chain[c][j].state = "fulfilled"
                                /\ chain[c][j].step = chain[c][k].step ) =>
        chain'[c][k].state = "fulfilled"

\* C24: ws.closed, once settled, keeps its code and reason; every failure
\* that quotes a close code and reason quotes the ones it holds; and
\* awaiting it does not use it up: an expectClosed that starts after it
\* settled is decided at once, so one that repeats a successful expectClosed
\* succeeds without suspending.
C24_ClosedSignal ==
  []C24_SameForAll /\ [][C24_Once /\ C24_AtOnce /\ C24_Again]_vars

\* two expectClosed(1000) in a row were both fulfilled by the one close
\* event; the second started after the first had succeeded
C24_Witness ==
  /\ Len(chain["A"]) = 2
  /\ \A k \in {1, 2} : /\ chain["A"][k].state = "fulfilled"
                        /\ chain["A"][k].step.op = "expectClosed"
                        /\ chain["A"][k].step.code = Some(1000)
  /\ ws["A"].closed = [settled |-> TRUE, code |-> 1000, message |-> ""]
  /\ ws["A"].readyState = "CLOSED"
====
